---- MODULE Spec2Model ----
(***************************************************************************)
(* Model of the statement ingestion pipeline of app.py: the line parser    *)
(* (parse_pdf), the CSV codec (save_statements_as_csv,                     *)
(* read_statements_from_csv), the aggregator (calculate_ending_balance)    *)
(* and the two request flows that use them (upload_pdf and                 *)
(* manual_login_and_link_bank_account).                                    *)
(*                                                                         *)
(* A Python str is a sequence of one-character strings.  A Python dict is  *)
(* a sequence of <<key, value>> pairs in insertion order.                  *)
(***************************************************************************)
EXTENDS Integers, Sequences, FiniteSets, TLC

\* ------------------------------------------------------------------------
\* Characters
\* ------------------------------------------------------------------------
SP == " "
TAB == "\t"
LF == "\n"
CR == "\r"
COMMA == ","
QUOTE == "\""

\* str.isspace() on the characters the model uses (str.split() with no
\* argument splits on these).
IsSpace(c) == c \in {SP, TAB, LF, CR}

\* ------------------------------------------------------------------------
\* Generic sequence helpers
\* ------------------------------------------------------------------------
\* sep.join(parts)
RECURSIVE join(_, _)
join(sep, parts) ==
  IF parts = <<>> THEN <<>>
  ELSE IF Len(parts) = 1 THEN Head(parts)
  ELSE Head(parts) \o sep \o join(sep, Tail(parts))

\* ------------------------------------------------------------------------
\* Line parser (app.py 201-211)
\* ------------------------------------------------------------------------

\* text.split('\n'): cut at every LF; always yields at least one line.
RECURSIVE split_newline_from(_, _, _, _)
split_newline_from(text, i, cur, acc) ==
  IF i > Len(text) THEN Append(acc, cur)
  ELSE IF text[i] = LF THEN split_newline_from(text, i + 1, <<>>, Append(acc, cur))
  ELSE split_newline_from(text, i + 1, Append(cur, text[i]), acc)

split_newline(text) == split_newline_from(text, 1, <<>>, <<>>)

\* line.split(): maximal runs of non-whitespace characters, left to right.
RECURSIVE split_from(_, _, _, _)
split_from(line, i, cur, acc) ==
  IF i > Len(line) THEN (IF cur = <<>> THEN acc ELSE Append(acc, cur))
  ELSE IF IsSpace(line[i])
       THEN split_from(line, i + 1, <<>>, IF cur = <<>> THEN acc ELSE Append(acc, cur))
       ELSE split_from(line, i + 1, Append(cur, line[i]), acc)

split(line) == split_from(line, 1, <<>>, <<>>)

\* Dictionary keys of a statement record.
DATE == <<"d", "a", "t", "e">>
DESCRIPTION == <<"d", "e", "s", "c", "r", "i", "p", "t", "i", "o", "n">>
AMOUNT == <<"a", "m", "o", "u", "n", "t">>

\* {'date': date, 'description': description, 'amount': amount}
Statement(date, description, amount) ==
  << <<DATE, date>>, <<DESCRIPTION, description>>, <<AMOUNT, amount>> >>

\* Minimum number of tokens of a data line (len(parts) >= 3).
MinParts == 3

\* parse_line with the slice parts[1:] for the description: the amount token
\* is repeated in it.
parse_line_slice(line) ==
  LET parts == split(line) IN
  IF Len(parts) >= MinParts
  THEN << Statement(parts[1],
                    join(<<SP>>, SubSeq(parts, 2, Len(parts))),
                    parts[Len(parts)]) >>
  ELSE <<>>

\* parse_line that keeps a line only when its last token is made of digits,
\* sign and decimal point.
parse_line_numeric(line) ==
  LET parts == split(line) IN
  IF /\ Len(parts) >= MinParts
     /\ \A i \in 1..Len(parts[Len(parts)]) :
          parts[Len(parts)][i] \in
            {"0", "1", "2", "3", "4", "5", "6", "7", "8", "9", ".", "-", "+"}
  THEN << Statement(parts[1],
                    join(<<SP>>, SubSeq(parts, 2, Len(parts) - 1)),
                    parts[Len(parts)]) >>
  ELSE <<>>

\* Body of the inner loop of parse_pdf for one line: the records it appends.
parse_line(line) ==
  LET parts == split(line) IN
  IF Len(parts) >= MinParts
  THEN << Statement(parts[1],
                    join(<<SP>>, SubSeq(parts, 2, Len(parts) - 1)),
                    parts[Len(parts)]) >>
  ELSE <<>>

RECURSIVE parse_lines(_)
parse_lines(lines) ==
  IF lines = <<>> THEN <<>> ELSE parse_line(Head(lines)) \o parse_lines(Tail(lines))

\* parse_pdf on the sequence of page texts of an opened document.
RECURSIVE parse_pages(_)
parse_pages(pages) ==
  IF pages = <<>> THEN <<>>
  ELSE parse_lines(split_newline(Head(pages))) \o parse_pages(Tail(pages))

\* A document pdfplumber cannot open.
Unreadable == << <<"UNREADABLE">> >>

\* parse_pdf(file_path): raises when pdfplumber.open fails, else the records.
parse_pdf(doc) ==
  IF doc = Unreadable
  THEN [raised |-> TRUE, error |-> "DocumentReadError", value |-> <<>>]
  ELSE [raised |-> FALSE, error |-> "", value |-> parse_pages(doc)]

\* ------------------------------------------------------------------------
\* Python dict (insertion ordered) as a sequence of <<key, value>> pairs
\* ------------------------------------------------------------------------
keys(d) == [i \in 1..Len(d) |-> d[i][1]]

HasKey(d, k) == \E i \in 1..Len(d) : d[i][1] = k

\* d[k] for a key that is present
Get(d, k) == d[CHOOSE i \in 1..Len(d) : d[i][1] = k][2]

\* d[k] = v
Put(d, k, v) ==
  IF HasKey(d, k)
  THEN [i \in 1..Len(d) |-> IF d[i][1] = k THEN <<k, v>> ELSE d[i]]
  ELSE Append(d, <<k, v>>)

\* Python's None (DictReader's restkey and restval).
None == <<"None">>

\* A file that does not exist.
NoFile == <<"NOFILE">>

\* ------------------------------------------------------------------------
\* CSV writer: csv.DictWriter(file, fieldnames=keys), excel dialect
\* (app.py 113-117)
\* ------------------------------------------------------------------------
\* The writer's line terminator.
CRLF == <<CR, LF>>

\* QUOTE_MINIMAL: a field is quoted when it holds the delimiter, the quote
\* character or a character of the line terminator.
needs_quote(field) ==
  \E i \in 1..Len(field) : field[i] \in {COMMA, QUOTE, CR, LF}

RECURSIVE double_quotes(_)
double_quotes(field) ==
  IF field = <<>> THEN <<>>
  ELSE (IF Head(field) = QUOTE THEN <<QUOTE, QUOTE>> ELSE <<Head(field)>>)
       \o double_quotes(Tail(field))

\* One field as the writer emits it; None is written as the empty string.
write_field(v) ==
  LET field == IF v = None THEN <<>> ELSE v IN
  IF needs_quote(field) THEN <<QUOTE>> \o double_quotes(field) \o <<QUOTE>>
  ELSE field

\* writer.writerow(values): a lone empty field is written as "".
writerow(values) ==
  (IF Len(values) = 1 /\ write_field(values[1]) = <<>>
   THEN <<QUOTE, QUOTE>>
   ELSE join(<<COMMA>>, [i \in 1..Len(values) |-> write_field(values[i])]))
  \o CRLF

\* DictWriter._dict_to_list: extrasaction='raise' rejects a key that is not
\* a field name.
has_wrong_fields(fieldnames, rowdict) ==
  \E i \in 1..Len(rowdict) :
    \A j \in 1..Len(fieldnames) : fieldnames[j] # rowdict[i][1]

\* rowdict.get(key, '') for key in fieldnames
dict_to_list(fieldnames, rowdict) ==
  [j \in 1..Len(fieldnames) |->
     IF HasKey(rowdict, fieldnames[j]) THEN Get(rowdict, fieldnames[j]) ELSE <<>>]

\* writer.writeheader(): the text written for the header row.
writeheader(fieldnames) == writerow(fieldnames)

\* writer.writerows(statements): rows are converted and written one by one;
\* the first row with a wrong field raises ValueError after the rows before
\* it were written.
RECURSIVE writerows(_, _)
writerows(fieldnames, statements) ==
  IF statements = <<>> THEN [raised |-> FALSE, text |-> <<>>]
  ELSE IF has_wrong_fields(fieldnames, Head(statements))
  THEN [raised |-> TRUE, text |-> <<>>]
  ELSE LET rest == writerows(fieldnames, Tail(statements)) IN
       [raised |-> rest.raised,
        text |-> writerow(dict_to_list(fieldnames, Head(statements))) \o rest.text]

\* save_statements_as_csv that opens the file before it takes the keys: an
\* empty list leaves an empty file behind.
save_statements_as_csv_open_first(file, statements) ==
  IF statements = <<>> THEN <<>>
  ELSE LET fieldnames == keys(statements[1]) IN
       writeheader(fieldnames) \o writerows(fieldnames, statements).text

\* save_statements_as_csv(statements, file_path) run without interruption:
\* the content of the file afterwards.  statements[0] on an empty list
\* raises IndexError before the file is opened; every exception is caught
\* and logged, so the call always returns normally.
save_statements_as_csv(file, statements) ==
  IF statements = <<>> THEN file
  ELSE LET fieldnames == keys(statements[1]) IN
       writeheader(fieldnames) \o writerows(fieldnames, statements).text

\* ------------------------------------------------------------------------
\* CSV reader: open(file_path, mode='r') and csv.DictReader (app.py 99-109)
\* ------------------------------------------------------------------------
\* Text mode with the default newline=None: CR LF and a lone CR are both
\* read as LF.
universal_newlines(data) ==
  LET kept == SelectSeq([i \in 1..Len(data) |-> i],
                LAMBDA i : ~(data[i] = LF /\ i > 1 /\ data[i - 1] = CR))
  IN [k \in 1..Len(kept) |-> IF data[kept[k]] = CR THEN LF ELSE data[kept[k]]]

\* csv.reader's parser for one record, from position i of the text.  States
\* as in _csv.c: "START_RECORD", "START_FIELD", "IN_FIELD",
\* "IN_QUOTED_FIELD", "QUOTE_IN_QUOTED_FIELD".  The result is the row and
\* the position after it; a blank line is the empty row.
RECURSIVE record_from(_, _, _, _, _)
record_from(text, i, state, field, row) ==
  IF i > Len(text)
  THEN [row |-> IF state = "START_RECORD" THEN row ELSE Append(row, field), next |-> i]
  ELSE LET c == text[i] IN
    CASE state \in {"START_RECORD", "START_FIELD"} /\ c = LF ->
           [row |-> IF state = "START_RECORD" THEN row ELSE Append(row, <<>>),
            next |-> i + 1]
      [] state \in {"START_RECORD", "START_FIELD"} /\ c = QUOTE ->
           record_from(text, i + 1, "IN_QUOTED_FIELD", <<>>, row)
      [] state \in {"START_RECORD", "START_FIELD"} /\ c = COMMA ->
           record_from(text, i + 1, "START_FIELD", <<>>, Append(row, <<>>))
      [] state \in {"START_RECORD", "START_FIELD"} /\ c \notin {LF, QUOTE, COMMA} ->
           record_from(text, i + 1, "IN_FIELD", <<c>>, row)
      [] state \in {"IN_FIELD", "QUOTE_IN_QUOTED_FIELD"} /\ c = LF ->
           [row |-> Append(row, field), next |-> i + 1]
      [] state \in {"IN_FIELD", "QUOTE_IN_QUOTED_FIELD"} /\ c = COMMA ->
           record_from(text, i + 1, "START_FIELD", <<>>, Append(row, field))
      [] state = "IN_FIELD" /\ c \notin {LF, COMMA} ->
           record_from(text, i + 1, "IN_FIELD", Append(field, c), row)
      [] state = "IN_QUOTED_FIELD" /\ c = QUOTE ->
           record_from(text, i + 1, "QUOTE_IN_QUOTED_FIELD", field, row)
      [] state = "IN_QUOTED_FIELD" /\ c # QUOTE ->
           record_from(text, i + 1, "IN_QUOTED_FIELD", Append(field, c), row)
      [] state = "QUOTE_IN_QUOTED_FIELD" /\ c = QUOTE ->
           record_from(text, i + 1, "IN_QUOTED_FIELD", Append(field, QUOTE), row)
      [] state = "QUOTE_IN_QUOTED_FIELD" /\ c \notin {LF, COMMA, QUOTE} ->
           record_from(text, i + 1, "IN_FIELD", Append(field, c), row)

\* The rows the reader yields from position i on.
RECURSIVE reader_from(_, _, _)
reader_from(text, i, rows) ==
  IF i > Len(text) THEN rows
  ELSE LET rec == record_from(text, i, "START_RECORD", <<>>, <<>>) IN
       reader_from(text, rec.next, Append(rows, rec.row))

reader(text) == reader_from(text, 1, <<>>)

\* dict(zip(fieldnames, row))
RECURSIVE dict_zip(_, _, _)
dict_zip(fieldnames, row, d) ==
  IF fieldnames = <<>> \/ row = <<>> THEN d
  ELSE dict_zip(Tail(fieldnames), Tail(row), Put(d, Head(fieldnames), Head(row)))

\* keys beyond the row get restval (None)
RECURSIVE fill_restval(_, _)
fill_restval(missing, d) ==
  IF missing = <<>> THEN d
  ELSE fill_restval(Tail(missing), Put(d, Head(missing), None))

\* DictReader.__next__ for one non-blank row: extra values go under the
\* restkey (None), missing ones get restval (None).
dict_row(fieldnames, row) ==
  LET lf == Len(fieldnames)
      lr == Len(row)
      d == dict_zip(fieldnames, row, <<>>)
  IN IF lf < lr THEN Put(d, None, SubSeq(row, lf + 1, lr))
     ELSE IF lf > lr THEN fill_restval(SubSeq(fieldnames, lr + 1, lf), d)
     ELSE d

\* The rows DictReader yields: the first row of the file is the header,
\* blank rows after it are skipped.
DictReader(text) ==
  LET rows == reader(text) IN
  IF rows = <<>> THEN <<>>
  ELSE LET fieldnames == Head(rows)
           data == SelectSeq(Tail(rows), LAMBDA r : r # <<>>)
       IN [i \in 1..Len(data) |-> dict_row(fieldnames, data[i])]

\* read_statements_from_csv(file_path): a missing file raises inside the
\* try block, the error is logged and [] returned.
read_statements_from_csv(file) ==
  IF file = NoFile THEN <<>> ELSE DictReader(universal_newlines(file))

\* ------------------------------------------------------------------------
\* Aggregator (app.py 122-123)
\* ------------------------------------------------------------------------
Digits == <<"0", "1", "2", "3", "4", "5", "6", "7", "8", "9">>

IsDigit(c) == \E d \in 1..10 : Digits[d] = c

DigitVal(c) == (CHOOSE d \in 1..10 : Digits[d] = c) - 1

\* str.strip() of whitespace
RECURSIVE lstrip(_)
lstrip(s) == IF s # <<>> /\ IsSpace(Head(s)) THEN lstrip(Tail(s)) ELSE s

RECURSIVE rstrip(_)
rstrip(s) ==
  IF s # <<>> /\ IsSpace(s[Len(s)]) THEN rstrip(SubSeq(s, 1, Len(s) - 1)) ELSE s

RECURSIVE digits_value(_, _)
digits_value(s, acc) ==
  IF s = <<>> THEN acc ELSE digits_value(Tail(s), 10 * acc + DigitVal(Head(s)))

\* float(x) on None and on strings of digits, signs, whitespace and letters
\* that spell no number: surrounding whitespace is ignored, one sign is
\* allowed, then at least one digit.  Integer literals convert exactly.
float(x) ==
  IF x = None THEN [raised |-> TRUE, error |-> "TypeError", value |-> 0]
  ELSE LET s == rstrip(lstrip(x))
           signed == s # <<>> /\ Head(s) \in {"+", "-"}
           body == IF signed THEN Tail(s) ELSE s
       IN IF body # <<>> /\ \A i \in 1..Len(body) : IsDigit(body[i])
          THEN [raised |-> FALSE, error |-> "",
                value |-> IF signed /\ Head(s) = "-"
                          THEN 0 - digits_value(body, 0) ELSE digits_value(body, 0)]
          ELSE [raised |-> TRUE, error |-> "ValueError", value |-> 0]

\* sum(float(statement['amount']) for statement in statements): starts from
\* 0 and adds the conversions from left to right; the first record whose
\* amount is missing or does not convert raises and ends the sum.
RECURSIVE sum_from(_, _)
sum_from(statements, acc) ==
  IF statements = <<>> THEN [raised |-> FALSE, error |-> "", value |-> acc]
  ELSE IF ~HasKey(Head(statements), AMOUNT)
  THEN [raised |-> TRUE, error |-> "KeyError", value |-> 0]
  ELSE LET f == float(Get(Head(statements), AMOUNT)) IN
       IF f.raised THEN f ELSE sum_from(Tail(statements), acc + f.value)

\* calculate_ending_balance that leaves out the records whose amount does
\* not convert.
calculate_ending_balance_skip(statements) ==
  sum_from(SelectSeq(statements,
             LAMBDA st : HasKey(st, AMOUNT) /\ ~float(Get(st, AMOUNT)).raised), 0)

\* calculate_ending_balance as a reduction without a start value: the empty
\* sequence raises.
calculate_ending_balance_reduce(statements) ==
  IF statements = <<>> THEN [raised |-> TRUE, error |-> "TypeError", value |-> 0]
  ELSE sum_from(statements, 0)

calculate_ending_balance(statements) == sum_from(statements, 0)

\* ------------------------------------------------------------------------
\* Request handling: what the except clauses let out, and the file system
\* ------------------------------------------------------------------------

\* An except clause that logs and raises again.
save_except_reraise(error) == error

\* save_statements_as_csv, "except Exception as e: logger.error(...)"
\* (app.py 119-120): the exception that leaves the function when the try
\* block raised `error`.  Nothing does; "" is no exception.
save_except(error) == ""

\* read_statements_from_csv, "except Exception as e: ...; return []"
\* (app.py 107-109): likewise nothing leaves the function.
read_except(error) == ""

\* manual_login_and_link_bank_account, "except Exception as error: ...;
\* raise error" (app.py 81-83): the exception is logged and raised again.
manual_except(error) == error

\* file.filename.endswith(suffix)
endswith(s, suffix) ==
  /\ Len(s) >= Len(suffix)
  /\ SubSeq(s, Len(s) - Len(suffix) + 1, Len(s)) = suffix

\* The accepted extension, '.pdf'.
PdfSuffix == <<".", "p", "d", "f">>

\* The extension check done without regard to case.
upload_accepts_nocase(has_file, filename) ==
  /\ has_file
  /\ filename # <<>>
  /\ \/ endswith(filename, <<".", "p", "d", "f">>)
     \/ endswith(filename, <<".", "P", "D", "F">>)

\* upload_pdf's three checks (app.py 215-220, 226): TRUE when the request
\* goes on to ingestion.  has_file is "'file' in request.files".
upload_accepts(has_file, filename) ==
  /\ has_file
  /\ filename # <<>>
  /\ endswith(filename, PdfSuffix)

\* A byte the file system fills a gap with.
NUL == "NUL"

\* The file after a write of `data` at offset `pos` through a descriptor
\* opened without O_APPEND: bytes at pos+1..pos+Len(data) are replaced, the
\* rest of the file stays, a gap past the end reads as NUL bytes.
write_at(file, pos, data) ==
  LET n == IF Len(file) > pos + Len(data) THEN Len(file) ELSE pos + Len(data) IN
  [i \in 1..n |->
     IF i > pos /\ i <= pos + Len(data) THEN data[i - pos]
     ELSE IF i <= Len(file) THEN file[i]
     ELSE NUL]

\* ------------------------------------------------------------------------
\* Inputs of the request flows
\* ------------------------------------------------------------------------
\* Uploaded documents (sequences of page texts): one with no data line,
\* one with the single line 'INVALID LINE DATA', one with two data lines
\* and a short line on two pages, and one pdfplumber cannot open.
DocEmpty == << <<"S", "t", "a", "t", "e", "m", "e", "n", "t">> >>
DocInvalid == << <<"I", "N", "V", "A", "L", "I", "D", SP, "L", "I", "N", "E", SP, "D", "A", "T", "A">> >>
DocTwo == << <<"d", "1", SP, "C", "o", "f", "f", "e", "e", SP, "S", "h", "o", "p", SP, "5", LF, "T", "o", "t", "a", "l">>,
            <<"d", "2", SP, "P", "a", "y", SP, "1", "2">> >>
Docs == {DocEmpty, DocInvalid, DocTwo, Unreadable}

\* Names of uploaded files.
NamePdf == <<"a", ".", "p", "d", "f">>
NameUpper == <<"a", ".", "P", "D", "F">>
NameTxt == <<"a", ".", "t", "x", "t">>
Filenames == {<<>>, NamePdf, NameUpper, NameTxt}

\* Upload requests: has_file is 'file' in request.files.
UploadInputs ==
  {[has_file |-> FALSE, filename |-> <<>>, doc |-> DocTwo]}
  \cup {[has_file |-> TRUE, filename |-> f, doc |-> DocTwo] : f \in Filenames}
  \cup {[has_file |-> TRUE, filename |-> NamePdf, doc |-> d] : d \in Docs}

\* Content of 'path/to/your/statements.csv': missing, two rows with numeric
\* amounts, or a numeric row followed by a longer row whose amount is DATA.
SourceGood == <<"d", "a", "t", "e", COMMA, "d", "e", "s", "c", "r", "i", "p", "t", "i", "o", "n", COMMA, "a", "m", "o", "u", "n", "t", CR, LF, "d", "1", COMMA, "x", COMMA, "5", CR, LF, "d", "2", COMMA, "y", COMMA, "-", "2", CR, LF>>
SourceMixed == <<"d", "a", "t", "e", COMMA, "d", "e", "s", "c", "r", "i", "p", "t", "i", "o", "n", COMMA, "a", "m", "o", "u", "n", "t", LF, "d", "1", COMMA, "x", COMMA, "5", LF, "d", "2", COMMA, "y", COMMA, "D", "A", "T", "A", COMMA, "z", LF>>
Sources == {NoFile, SourceGood, SourceMixed}

\* os.getenv('MOCK_USERNAME'), os.getenv('MOCK_PASSWORD')
MOCK_USERNAME == "lender"
MOCK_PASSWORD == "secret"
Usernames == {"lender", "guest"}
Passwords == {"secret", "wrong"}

\* perform_manual_login (app.py 41-45)
perform_manual_login(username, password) ==
  username = MOCK_USERNAME /\ password = MOCK_PASSWORD

\* Concurrent request handlers.
Slots == {1, 2}

\* Bounds on the number of requests served.
MaxRuns == 2
MaxReruns == 3

\* ------------------------------------------------------------------------
\* State
\* ------------------------------------------------------------------------
VARIABLES
  statements_csv,  \* content of 'statements.csv', or NoFile
  source_csv,      \* content of 'path/to/your/statements.csv', or NoFile
  uploads,         \* the uploads directory: file name -> document, or NoUpload
  req,             \* the request each handler is serving and its locals
  runs,            \* number of requests received
  history,         \* records of the completed ingestion runs, oldest first
  input,           \* argument of a direct call of a pipeline function
  output,          \* its result
  upc              \* position of the direct call

vars == <<statements_csv, source_csv, uploads, req, runs, history, input, output, upc>>

\* A handler that serves no request.
IdleReq ==
  [kind |-> "none", pc |-> "idle", has_file |-> FALSE, filename |-> <<>>,
   doc |-> <<>>, stored |-> FALSE, parsed |-> FALSE, statements |-> <<>>,
   written |-> <<>>, flushed |-> 0, pending |-> "", logged |-> {},
   status |-> 0, error |-> "", body |-> <<>>]

\* No direct call is made in the request flows.
NoCall == /\ input = <<>>
          /\ output = <<>>
          /\ upc = "off"

\* No file of that name in the uploads directory.
NoUpload == << <<"NOFILE">> >>

\* The server after start-up.
Init ==
  /\ statements_csv = NoFile
  /\ source_csv \in Sources
  /\ uploads = [f \in Filenames |-> NoUpload]
  /\ req = [r \in Slots |-> IdleReq]
  /\ runs = 0
  /\ history = <<>>
  /\ NoCall

\* A handler can take a request: it serves none or has answered the last.
Free(r) == req[r].pc \in {"idle", "done"}

\* ------------------------------------------------------------------------
\* upload_pdf (app.py 213-226)
\* ------------------------------------------------------------------------
\* A request the checks turn away: 400, nothing else happens.
UploadReject(r, in, limit) ==
  /\ Free(r)
  /\ runs < limit
  /\ ~upload_accepts(in.has_file, in.filename)
  /\ req' = [req EXCEPT ![r] =
       [IdleReq EXCEPT !.kind = "upload", !.pc = "done", !.has_file = in.has_file,
                       !.filename = in.filename, !.status = 400]]
  /\ runs' = runs + 1
  /\ UNCHANGED <<statements_csv, source_csv, uploads, history, input, output, upc>>

\* An accepted request: file.save(os.path.join('uploads', file.filename)).
UploadAccept(r, in, limit) ==
  /\ Free(r)
  /\ runs < limit
  /\ upload_accepts(in.has_file, in.filename)
  /\ uploads' = [uploads EXCEPT ![in.filename] = in.doc]
  /\ req' = [req EXCEPT ![r] =
       [IdleReq EXCEPT !.kind = "upload", !.pc = "parse", !.has_file = in.has_file,
                       !.filename = in.filename, !.stored = TRUE]]
  /\ runs' = runs + 1
  /\ UNCHANGED <<statements_csv, source_csv, history, input, output, upc>>

\* statements = parse_pdf(file_path): reads the saved file; an exception
\* is not caught by upload_pdf and fails the request.
UploadParse(r) ==
  /\ req[r].kind = "upload"
  /\ req[r].pc = "parse"
  /\ LET doc == uploads[req[r].filename]
         res == parse_pdf(doc)
     IN req' = [req EXCEPT ![r] =
          IF res.raised
          THEN [@ EXCEPT !.doc = doc, !.parsed = TRUE, !.pc = "done",
                         !.status = 500, !.error = "extraction"]
          ELSE [@ EXCEPT !.doc = doc, !.parsed = TRUE, !.pc = "save",
                         !.statements = res.value]]
  /\ UNCHANGED <<statements_csv, source_csv, uploads, runs, history, input, output, upc>>

\* return jsonify({'message': ..., 'statements': statements}), 200
UploadRespond(r) ==
  /\ req[r].kind = "upload"
  /\ req[r].pc = "saved"
  /\ req' = [req EXCEPT ![r] =
       [@ EXCEPT !.pc = "done", !.status = 200, !.body = req[r].statements]]
  /\ history' = Append(history, req[r].statements)
  /\ UNCHANGED <<statements_csv, source_csv, uploads, runs, input, output, upc>>

\* ------------------------------------------------------------------------
\* save_statements_as_csv(statements, 'statements.csv') step by step
\* (app.py 111-120).  Text written through the file object is buffered:
\* `written` is all of it, its first `flushed` characters have reached the
\* file, at the descriptor's own offset.
\* ------------------------------------------------------------------------
\* An exception `error` raised in the try block: logged; the request fails
\* if it leaves the function.
SaveRaised(q, error) ==
  IF save_except(error) = ""
  THEN [q EXCEPT !.pc = "saved", !.pending = "", !.logged = @ \cup {"save"}]
  ELSE [q EXCEPT !.pc = "done", !.pending = "", !.logged = @ \cup {"save"},
                 !.status = 500, !.error = "storage"]

\* keys = statements[0].keys() on an empty list: IndexError, no file opened.
SaveSkip(r) ==
  /\ req[r].pc = "save"
  /\ req[r].statements = <<>>
  /\ req' = [req EXCEPT ![r] = SaveRaised(@, "IndexError")]
  /\ UNCHANGED <<statements_csv, source_csv, uploads, runs, history, input, output, upc>>

\* The file opened for update without truncation: an existing file keeps
\* its content.
SaveOpen_keep(r) ==
  /\ req[r].pc = "save"
  /\ req[r].statements # <<>>
  /\ statements_csv' = IF statements_csv = NoFile THEN <<>> ELSE statements_csv
  /\ req' = [req EXCEPT ![r] = [@ EXCEPT !.pc = "header", !.written = <<>>, !.flushed = 0]]
  /\ UNCHANGED <<source_csv, uploads, runs, history, input, output, upc>>

\* open(file_path, mode='w', newline=''): creates or truncates the file.
SaveOpen(r) ==
  /\ req[r].pc = "save"
  /\ req[r].statements # <<>>
  /\ statements_csv' = <<>>
  /\ req' = [req EXCEPT ![r] = [@ EXCEPT !.pc = "header", !.written = <<>>, !.flushed = 0]]
  /\ UNCHANGED <<source_csv, uploads, runs, history, input, output, upc>>

\* writer.writeheader()
SaveHeader(r) ==
  /\ req[r].pc = "header"
  /\ req' = [req EXCEPT ![r] =
       [@ EXCEPT !.pc = "rows",
                 !.written = @ \o writeheader(keys(req[r].statements[1]))]]
  /\ UNCHANGED <<statements_csv, source_csv, uploads, runs, history, input, output, upc>>

\* writer.writerows(statements)
SaveRows(r) ==
  /\ req[r].pc = "rows"
  /\ LET w == writerows(keys(req[r].statements[1]), req[r].statements) IN
     req' = [req EXCEPT ![r] =
       [@ EXCEPT !.pc = "close", !.written = @ \o w.text,
                 !.pending = IF w.raised THEN "ValueError" ELSE ""]]
  /\ UNCHANGED <<statements_csv, source_csv, uploads, runs, history, input, output, upc>>

\* The buffer fills before the rows are all written and is flushed.
SaveFlush(r) ==
  /\ req[r].pc = "rows"
  /\ req[r].flushed < Len(req[r].written)
  /\ statements_csv' = write_at(statements_csv, req[r].flushed,
       SubSeq(req[r].written, req[r].flushed + 1, Len(req[r].written)))
  /\ req' = [req EXCEPT ![r] = [@ EXCEPT !.flushed = Len(req[r].written)]]
  /\ UNCHANGED <<source_csv, uploads, runs, history, input, output, upc>>

\* Leaving the with block closes the file, which flushes the buffer; then
\* the function returns, through the except clause if writerows raised.
SaveClose(r) ==
  /\ req[r].pc = "close"
  /\ statements_csv' = write_at(statements_csv, req[r].flushed,
       SubSeq(req[r].written, req[r].flushed + 1, Len(req[r].written)))
  /\ req' = [req EXCEPT ![r] =
       IF req[r].pending = ""
       THEN [@ EXCEPT !.pc = "saved", !.flushed = Len(req[r].written)]
       ELSE SaveRaised([@ EXCEPT !.flushed = Len(req[r].written)], req[r].pending)]
  /\ UNCHANGED <<source_csv, uploads, runs, history, input, output, upc>>

\* ------------------------------------------------------------------------
\* manual_login_and_link_bank_account (app.py 64-83) and its route
\* manual_login (app.py 87-96)
\* ------------------------------------------------------------------------
\* return {'error': 'Invalid credentials'}; the route answers 403.
ManualLoginFail(r, username, password, limit) ==
  /\ Free(r)
  /\ runs < limit
  /\ ~perform_manual_login(username, password)
  /\ req' = [req EXCEPT ![r] =
       [IdleReq EXCEPT !.kind = "manual", !.pc = "done", !.status = 403]]
  /\ runs' = runs + 1
  /\ UNCHANGED <<statements_csv, source_csv, uploads, history, input, output, upc>>

\* receive_verification_code() and generate_access_token() are defined
\* nowhere in app.py: the call raises NameError unless the name is bound
\* from outside; both outcomes are possible.  Here it raises; the except
\* clause raises it again and the route answers 500.
ManualVerifyFail(r, username, password, limit) ==
  /\ Free(r)
  /\ runs < limit
  /\ perform_manual_login(username, password)
  /\ req' = [req EXCEPT ![r] =
       [IdleReq EXCEPT !.kind = "manual", !.pc = "done", !.status = 500,
                       !.error = manual_except("verification"),
                       !.logged = {"manual"}]]
  /\ runs' = runs + 1
  /\ UNCHANGED <<statements_csv, source_csv, uploads, history, input, output, upc>>

\* The verification calls return, check_bank_verification is True, and
\* statements = read_statements_from_csv('path/to/your/statements.csv').
ManualRead(r, username, password, limit) ==
  /\ Free(r)
  /\ runs < limit
  /\ perform_manual_login(username, password)
  /\ req' = [req EXCEPT ![r] =
       IF source_csv = NoFile /\ read_except("FileNotFoundError") # ""
       THEN [IdleReq EXCEPT !.kind = "manual", !.pc = "done", !.status = 500,
                            !.error = "storage", !.logged = {"read", "manual"}]
       ELSE [IdleReq EXCEPT !.kind = "manual", !.pc = "save",
                            !.statements = read_statements_from_csv(source_csv),
                            !.logged = IF source_csv = NoFile THEN {"read"} ELSE {}]]
  /\ runs' = runs + 1
  /\ UNCHANGED <<statements_csv, source_csv, uploads, history, input, output, upc>>

\* ending_balance = calculate_ending_balance(statements) inside the try
\* block: the result the caller of manual_login_and_link_bank_account sees,
\* the return value or the exception raised again by the except clause.
aggregate_call(statements) ==
  LET res == calculate_ending_balance(statements) IN
  IF res.raised /\ manual_except(res.error) # ""
  THEN [raised |-> TRUE, error |-> manual_except(res.error), value |-> 0]
  ELSE [raised |-> FALSE, error |-> "", value |-> res.value]

\* The call after the save, and the route's answer: 200, or 500 when the
\* exception reached it.
ManualAggregate(r) ==
  /\ req[r].kind = "manual"
  /\ req[r].pc = "saved"
  /\ LET res == aggregate_call(req[r].statements) IN
     req' = [req EXCEPT ![r] =
       IF res.raised
       THEN [@ EXCEPT !.pc = "done", !.status = 500, !.error = "aggregation",
                      !.logged = @ \cup {"manual"}]
       ELSE [@ EXCEPT !.pc = "done", !.status = 200]]
  /\ UNCHANGED <<statements_csv, source_csv, uploads, runs, history, input, output, upc>>

\* ------------------------------------------------------------------------
\* The server: handlers run concurrently, one thread per request
\* ------------------------------------------------------------------------
Next ==
  \/ \E r \in Slots, in \in UploadInputs : UploadReject(r, in, MaxRuns)
  \/ \E r \in Slots, in \in UploadInputs : UploadAccept(r, in, MaxRuns)
  \/ \E r \in Slots : UploadParse(r)
  \/ \E r \in Slots : UploadRespond(r)
  \/ \E r \in Slots : SaveSkip(r)
  \/ \E r \in Slots : SaveOpen(r)
  \/ \E r \in Slots : SaveHeader(r)
  \/ \E r \in Slots : SaveRows(r)
  \/ \E r \in Slots : SaveFlush(r)
  \/ \E r \in Slots : SaveClose(r)
  \/ \E r \in Slots, u \in Usernames, p \in Passwords : ManualLoginFail(r, u, p, MaxRuns)
  \/ \E r \in Slots, u \in Usernames, p \in Passwords : ManualVerifyFail(r, u, p, MaxRuns)
  \/ \E r \in Slots, u \in Usernames, p \in Passwords : ManualRead(r, u, p, MaxRuns)
  \/ \E r \in Slots : ManualAggregate(r)

Spec == Init /\ [][Next]_vars

\* ------------------------------------------------------------------------
\* Re-running the ingestion: upload requests served one after the other
\* ------------------------------------------------------------------------
\* No request is being served.
Quiet == \A q \in Slots : Free(q)

NextRerun ==
  \/ \E in \in UploadInputs : Quiet /\ UploadReject(1, in, MaxReruns)
  \/ \E in \in UploadInputs : Quiet /\ UploadAccept(1, in, MaxReruns)
  \/ UploadParse(1)
  \/ SaveSkip(1)
  \/ SaveOpen(1)
  \/ SaveHeader(1)
  \/ SaveRows(1)
  \/ SaveFlush(1)
  \/ SaveClose(1)
  \/ UploadRespond(1)

SpecRerun == Init /\ [][NextRerun]_vars

\* ------------------------------------------------------------------------
\* Direct calls of the pipeline functions
\* ------------------------------------------------------------------------
\* The request handlers stay idle during a direct call.
ServerIdle ==
  /\ source_csv = NoFile
  /\ uploads = [f \in Filenames |-> NoUpload]
  /\ req = [r \in Slots |-> IdleReq]
  /\ runs = 0
  /\ history = <<>>

\* Bounds of the inputs of the direct calls.
MaxLineLen == 5
MaxLines == 3
MaxRecords == 2
MaxFieldLen == 1
MaxStatements == 3

\* All sequences over `chars` of length at most n.
Strings(chars, n) == UNION {[1..k -> chars] : k \in 0..n}

\* --- parse_pdf -----------------------------------------------------------
\* Lines of a page: short lines over a letter, a digit and the space, and
\* two longer ones (four tokens separated by a tab and a double space;
\* three tokens with spaces around).
LineChars == {"a", "1", SP}
LongLines ==
  { <<"a", TAB, "1", "1", SP, SP, "a", SP, "1">>,
    <<SP, "1", "a", SP, "a", SP, "a", "1", SP>> }

\* n lines: the short line x at position p, the long lines f around it.
LinesOf(n, p, x, f) ==
  [i \in 1..n |-> IF i = p THEN x ELSE IF i < p THEN f[i] ELSE f[i - 1]]

\* The lines cut into pages after the positions in `breaks`.
RECURSIVE Paginate(_, _, _, _)
Paginate(lines, breaks, i, page) ==
  IF i > Len(lines) THEN <<page>>
  ELSE IF i \in breaks
  THEN <<Append(page, lines[i])>> \o Paginate(lines, breaks, i + 1, <<>>)
  ELSE Paginate(lines, breaks, i + 1, Append(page, lines[i]))

\* page.extract_text(): the lines of the page separated by newlines.
extract_text(page) == join(<<LF>>, page)

\* A document as pages of lines: no page, or up to MaxLines lines on pages.
InitParse ==
  /\ \/ input = <<>>
     \/ \E n \in 1..MaxLines :
          \E p \in 1..n, x \in Strings(LineChars, MaxLineLen),
             f \in [1..(n - 1) -> LongLines], b \in SUBSET (1..(n - 1)) :
            input = Paginate(LinesOf(n, p, x, f), b, 1, <<>>)
  /\ output = <<>>
  /\ upc = "call"
  /\ statements_csv = NoFile
  /\ ServerIdle

\* statements = parse_pdf(file_path)
CallParse ==
  /\ upc = "call"
  /\ output' = parse_pdf([p \in 1..Len(input) |-> extract_text(input[p])])
  /\ upc' = "parsed"
  /\ UNCHANGED <<statements_csv, source_csv, uploads, req, runs, history, input>>

NextParse == CallParse

SpecParse == InitParse /\ [][NextParse]_vars

\* --- save_statements_as_csv, read_statements_from_csv ---------------------
\* Characters of a description: a letter, the space, and the characters the
\* CSV format treats specially.
FieldChars == {"a", SP, COMMA, QUOTE, CR, LF}

CsvRecords(maxlen) ==
  {Statement(<<"d", "1">>, d, a) :
     d \in Strings(FieldChars, maxlen), a \in {<<"5">>, <<"D", "A", "T", "A">>}}

CsvInputs(maxrecords, maxlen) == Strings(CsvRecords(maxlen), maxrecords)

\* A file left by an earlier save.
OldCsv == <<"k", CR, LF, "v", CR, LF>>

InitCsv ==
  /\ input \in CsvInputs(MaxRecords, MaxFieldLen)
  /\ output = <<>>
  /\ upc = "call"
  /\ statements_csv \in {NoFile, OldCsv}
  /\ ServerIdle

\* The exception raised inside the try block of save_statements_as_csv, ""
\* if none.
save_error(statements) ==
  IF statements = <<>> THEN "IndexError"
  ELSE IF writerows(keys(statements[1]), statements).raised THEN "ValueError"
  ELSE ""

\* save_statements_as_csv(statements, file_path)
CallSave ==
  /\ upc = "call"
  /\ statements_csv' = save_statements_as_csv(statements_csv, input)
  /\ output' = [raised |-> save_error(input) # "" /\ save_except(save_error(input)) # ""]
  /\ upc' = "saved"
  /\ UNCHANGED <<source_csv, uploads, req, runs, history, input>>

\* read_statements_from_csv(file_path) of the same path
CallRead ==
  /\ upc = "saved"
  /\ output' = read_statements_from_csv(statements_csv)
  /\ upc' = "read"
  /\ UNCHANGED <<statements_csv, source_csv, uploads, req, runs, history, input>>

NextCsv == CallSave \/ CallRead

SpecCsv == InitCsv /\ [][NextCsv]_vars

\* --- calculate_ending_balance ---------------------------------------------
\* Amounts: integer literals with and without sign and surrounding space,
\* and strings that are no number.
AmountStrings ==
  { <<"5">>, <<"-", "1", "2">>, <<"+", "7">>, <<SP, "3", "0">>,
    <<"D", "A", "T", "A">>, <<>>, <<"1", "-">> }

\* Records with an amount, a record read from a short CSV row (amount None).
AggRecords ==
  {Statement(<<"d", "1">>, <<"x">>, a) : a \in AmountStrings \cup {None}}

AggInputs(maxstatements) == Strings(AggRecords, maxstatements)

InitAgg ==
  /\ input \in AggInputs(MaxStatements)
  /\ output = <<>>
  /\ upc = "call"
  /\ statements_csv = NoFile
  /\ ServerIdle

\* ending_balance = calculate_ending_balance(statements), as its caller
\* manual_login_and_link_bank_account sees it.
CallAggregate ==
  /\ upc = "call"
  /\ output' = aggregate_call(input)
  /\ upc' = "done"
  /\ UNCHANGED <<statements_csv, source_csv, uploads, req, runs, history, input>>

NextAgg == CallAggregate

SpecAgg == InitAgg /\ [][NextAgg]_vars

\* ------------------------------------------------------------------------
\* Properties
\* ------------------------------------------------------------------------

\* --- C1 ---
\* Tokens of a line, told by position: a token starts at a character that is
\* not whitespace and follows whitespace or the start of the line, and runs
\* to the last character before the next whitespace.
C1_Starts(line) ==
  {i \in 1..Len(line) : ~IsSpace(line[i]) /\ (i = 1 \/ IsSpace(line[i - 1]))}

C1_End(line, i) ==
  CHOOSE j \in i..Len(line) :
    /\ \A k \in i..j : ~IsSpace(line[k])
    /\ j = Len(line) \/ IsSpace(line[j + 1])

C1_Token(line, i) == SubSeq(line, i, C1_End(line, i))

C1_Min(S) == CHOOSE m \in S : \A x \in S : m <= x

C1_Max(S) == CHOOSE m \in S : \A x \in S : m >= x

\* The tokens starting at the positions in S, in order, with one space
\* between neighbours.
RECURSIVE C1_Joined(_, _)
C1_Joined(line, S) ==
  IF S = {} THEN <<>>
  ELSE LET m == C1_Min(S) IN
       IF S = {m} THEN C1_Token(line, m)
       ELSE C1_Token(line, m) \o <<SP>> \o C1_Joined(line, S \ {m})

C1_IsData(line) == Cardinality(C1_Starts(line)) >= 3

C1_Record(line) ==
  LET S == C1_Starts(line) IN
  [date |-> C1_Token(line, C1_Min(S)),
   description |-> C1_Joined(line, S \ {C1_Min(S), C1_Max(S)}),
   amount |-> C1_Token(line, C1_Max(S))]

RECURSIVE C1_Flatten(_)
C1_Flatten(pages) ==
  IF pages = <<>> THEN <<>> ELSE Head(pages) \o C1_Flatten(Tail(pages))

\* The lines of the document in page order and line order.
C1_Lines == C1_Flatten(input)

\* C1: parse_pdf returns exactly one record per line with at least 3
\* whitespace-delimited tokens, in the original order, and none for a line
\* with fewer; each record has date = the first token, amount = the last
\* token and description = the tokens in between joined by single spaces.
C1_ParseContract ==
  upc = "parsed" =>
    LET data == SelectSeq(C1_Lines, C1_IsData) IN
    /\ ~output.raised
    /\ Len(output.value) = Len(data)
    /\ \A i \in 1..Len(data) :
         /\ keys(output.value[i]) = <<DATE, DESCRIPTION, AMOUNT>>
         /\ Get(output.value[i], DATE) = C1_Record(data[i]).date
         /\ Get(output.value[i], DESCRIPTION) = C1_Record(data[i]).description
         /\ Get(output.value[i], AMOUNT) = C1_Record(data[i]).amount

\* A document of two pages was parsed into at least two records, one with a
\* description of two tokens, and a line of fewer than 3 tokens was dropped.
C1_Witness ==
  /\ upc = "parsed"
  /\ Len(input) = 2
  /\ Len(output.value) >= 2
  /\ \E i \in 1..Len(C1_Lines) :
       /\ C1_Lines[i] # <<>>
       /\ ~C1_IsData(C1_Lines[i])
  /\ \E i \in 1..Len(output.value) :
       \E k \in 1..Len(Get(output.value[i], DESCRIPTION)) :
         Get(output.value[i], DESCRIPTION)[k] = SP

\* --- C2 ---
\* C2: saving N >= 1 records with the same fields and reading the file back
\* returns the N records, in order, with identical string values.
C2_RoundTrip ==
  (upc = "read" /\ Len(input) >= 1) => output = input

\* --- C3 ---
C3_Bad(st) == float(Get(st, AMOUNT)).raised

\* C3: if any record has an amount that does not convert to a number,
\* calculate_ending_balance fails with an error that reaches its caller,
\* wherever the record stands; no partial sum is returned.
C3_AbortsOnBadAmount ==
  (upc = "done" /\ \E i \in 1..Len(input) : C3_Bad(input[i])) => output.raised

\* The only bad record is the last of three; the call raised.
C3_Witness ==
  /\ upc = "done"
  /\ Len(input) = 3
  /\ ~C3_Bad(input[1])
  /\ ~C3_Bad(input[2])
  /\ C3_Bad(input[3])
  /\ output.raised

\* --- C4 ---
\* The sum of the amounts, taken from the last record to the first.
RECURSIVE C4_Total(_)
C4_Total(statements) ==
  IF statements = <<>> THEN 0
  ELSE float(Get(statements[Len(statements)], AMOUNT)).value
       + C4_Total(SubSeq(statements, 1, Len(statements) - 1))

\* C4: when every amount is numeric calculate_ending_balance returns the
\* sum of the amounts; for the empty sequence it returns zero and does not
\* fail.
C4_SumOfAmounts ==
  (upc = "done" /\ \A i \in 1..Len(input) : ~C3_Bad(input[i])) =>
     /\ ~output.raised
     /\ output.value = C4_Total(input)
     /\ input = <<>> => output.value = 0

\* Three numeric amounts of both signs were added to a non-zero balance.
C4_Witness ==
  /\ upc = "done"
  /\ Len(input) = 3
  /\ \A i \in 1..3 : ~C3_Bad(input[i])
  /\ \E i \in 1..3 : float(Get(input[i], AMOUNT)).value < 0
  /\ \E i \in 1..3 : float(Get(input[i], AMOUNT)).value > 0
  /\ ~output.raised
  /\ output.value # 0

\* --- C5 ---
\* C5: save_statements_as_csv with an empty sequence creates no file at a
\* path that did not exist, and returns normally.
C5_EmptySaveCreatesNoFile ==
  [][(upc = "call" /\ upc' = "saved" /\ input = <<>> /\ statements_csv = NoFile)
       => (statements_csv' = NoFile /\ ~output'.raised)]_vars

\* The empty sequence was saved to a path that did not exist.
C5_Witness ==
  /\ upc = "saved"
  /\ input = <<>>
  /\ statements_csv = NoFile
  /\ ~output.raised

\* --- C6 ---
\* The records read back from statements.csv.
C6_Content == read_statements_from_csv(statements_csv)

\* C6 as claimed: after any sequence of completed ingestion runs the content
\* of statements.csv is exactly the records of the most recent run.
C6_LastRunWins ==
  (Quiet /\ history # <<>>) => C6_Content = history[Len(history)]

\* The records of the most recent run that extracted at least one record.
C6_LastNonEmpty ==
  LET S == {i \in 1..Len(history) : history[i] # <<>>} IN
  IF S = {} THEN <<>> ELSE history[CHOOSE m \in S : \A x \in S : m >= x]

\* C6 amended: after upload runs served one after the other, statements.csv
\* holds exactly the records of the most recent run that extracted at least
\* one record, and does not exist when no run did.
C6_LastNonEmptyRunWins ==
  Quiet =>
    /\ C6_Content = C6_LastNonEmpty
    /\ C6_LastNonEmpty = <<>> => statements_csv = NoFile

\* Two runs with different records completed, the second overwrote the file
\* of the first.
C6_Witness ==
  /\ Quiet
  /\ Len(history) >= 2
  /\ history[Len(history)] # <<>>
  /\ history[Len(history) - 1] # <<>>
  /\ Len(history[Len(history)]) < Len(history[Len(history) - 1])

\* --- C7 ---
\* A request the claim says is rejected: no file, an empty file name, or a
\* name whose last four characters are not exactly ".pdf".
C7_Rejected(q) ==
  \/ ~q.has_file
  \/ Len(q.filename) = 0
  \/ Len(q.filename) < 4
  \/ q.filename[Len(q.filename) - 3] # "."
  \/ q.filename[Len(q.filename) - 2] # "p"
  \/ q.filename[Len(q.filename) - 1] # "d"
  \/ q.filename[Len(q.filename)] # "f"

\* C7: every step taken for such an upload request answers 400 and is the
\* end of the request: nothing is saved to uploads, parse_pdf is not called
\* and statements.csv is left unchanged.
C7_RejectsWithoutIngestion ==
  [][\A r \in Slots :
       (req'[r] # req[r] /\ req'[r].kind = "upload" /\ C7_Rejected(req'[r])) =>
         /\ req'[r].pc = "done"
         /\ req'[r].status = 400
         /\ ~req'[r].stored
         /\ ~req'[r].parsed
         /\ req'[r].written = <<>>
         /\ uploads' = uploads
         /\ statements_csv' = statements_csv]_vars

\* An upload named a.PDF was rejected while statements.csv existed.
C7_Witness ==
  /\ statements_csv # NoFile
  /\ \E r \in Slots :
       /\ req[r].kind = "upload"
       /\ req[r].filename = NameUpper
       /\ req[r].pc = "done"
       /\ req[r].status = 400

\* --- C8 ---
\* The header and rows a request writes for its records.
C8_Complete(statements) ==
  writeheader(keys(statements[1])) \o writerows(keys(statements[1]), statements).text

\* C8: when two upload requests that both ingest records have completed,
\* statements.csv is exactly the complete header and rows of one of them.
C8_LastWriterWins ==
  (/\ runs = 2
   /\ \A r \in Slots :
        /\ req[r].kind = "upload"
        /\ req[r].pc = "done"
        /\ req[r].status = 200
        /\ req[r].statements # <<>>)
  => \E r \in Slots : statements_csv = C8_Complete(req[r].statements)

\* --- C9 ---
C9_Record ==
  Statement(<<"I", "N", "V", "A", "L", "I", "D">>, <<"L", "I", "N", "E">>,
            <<"D", "A", "T", "A">>)

\* C9: the line 'INVALID LINE DATA' is parsed into a record with amount
\* DATA without any failure; the upload answers 200 with the record, the
\* record is written to the CSV, and converting fails only in
\* calculate_ending_balance.
C9_ValidationDeferred ==
  \A r \in Slots :
    (req[r].kind = "upload" /\ req[r].parsed /\ req[r].doc = DocInvalid) =>
      /\ req[r].error = ""
      /\ req[r].statements = <<C9_Record>>
      /\ req[r].pc = "done" =>
           /\ req[r].status = 200
           /\ req[r].body = <<C9_Record>>
           /\ req[r].flushed = Len(req[r].written)
           /\ read_statements_from_csv(req[r].written) = <<C9_Record>>
      /\ calculate_ending_balance(req[r].statements).raised

\* An upload of the document with the line 'INVALID LINE DATA' was answered.
C9_Witness ==
  \E r \in Slots :
    /\ req[r].kind = "upload"
    /\ req[r].doc = DocInvalid
    /\ req[r].pc = "done"
    /\ req[r].status = 200
    /\ req[r].written # <<>>

\* --- C10 ---
\* C10 as claimed: a request that fails with an error does so because of an
\* aggregation error and for no other stage's error.
C10_OnlyAggregationFails ==
  \A r \in Slots : req[r].status = 500 => req[r].error = "aggregation"

\* C10 amended: an error of the storage stage never fails a request; a
\* failed upload failed in parse_pdf, a failed manual login in the
\* aggregation or in the verification calls before the read.
C10_StorageNeverFails ==
  \A r \in Slots :
    /\ req[r].error # "storage"
    /\ (req[r].status = 500 /\ req[r].kind = "upload") => req[r].error = "extraction"
    /\ (req[r].status = 500 /\ req[r].kind = "manual") =>
         req[r].error \in {"aggregation", "verification"}
    /\ req[r].pc = "done" => req[r].status \in {200, 400, 403, 500}

\* A manual login whose save failed and was logged went on and failed in
\* the aggregation; an upload whose save failed was answered 200.
C10_Witness ==
  /\ \E r \in Slots :
       /\ req[r].kind = "manual"
       /\ "save" \in req[r].logged
       /\ req[r].status = 500
       /\ req[r].error = "aggregation"
  /\ \E r \in Slots :
       /\ req[r].kind = "upload"
       /\ "save" \in req[r].logged
       /\ req[r].status = 200

====
